---- MODULE Spec2Model ----
(***************************************************************************)
(* Air-quality forecasting pipelines: lagged-feature construction in the   *)
(* backfill pipeline (backfill-feature-pipeline.py), the daily pipeline    *)
(* (daily-feature-pipeline.py) and the batch inference pipeline            *)
(* (batch-inference-pipeline.py), with the helpers of util.py.             *)
(*                                                                         *)
(* Each script is a run-to-completion program; it gets a specification of  *)
(* its own (SpecBackfill, SpecDaily, SpecInference).  Variables a script   *)
(* does not use keep their initial value in its specification.             *)
(*                                                                         *)
(* Calendar dates are day numbers.  A DataFrame is a sequence of records.  *)
(* A float column that may hold NaN is modelled as an option: NaN is the   *)
(* empty sequence, a present value v is <<v>>.                             *)
(***************************************************************************)
EXTENDS Integers, Sequences, FiniteSets, TLC

VARIABLES
    pc,               \* position of the running script
    data,             \* backfill: observations held by the data/<id>.csv files
    combined_df,      \* backfill: local combined_df of load_air_quality_data
    air_quality_df,   \* backfill and daily: module-level air_quality_df
    weather_df,       \* backfill and daily: module-level weather_df
    air_quality_fg,   \* feature group air_quality v3 (set of stored rows)
    weather_fg,       \* feature group weather v2 (set of stored rows)
    fs_at_start,      \* content of both feature groups when the run started
    today,            \* daily and inference: date.today()
    loc_idx,          \* daily and inference: position of the loop over locations
    responses,        \* daily: the AQICN responses received, one pair per location
    batch_data,       \* inference: weather rows read for today and later
    historical_aq,    \* inference: air-quality rows of the lookback read
    predictions_list, \* inference: the predictions appended so far
    regressor_calls,  \* inference: every X_pred handed to the regressor, with
                      \* the location it was built for and the value returned
    forecasts_fg,     \* feature group air_quality_forecasts v1
    api_responses,    \* util.get_forecast: the responses of client.weather_api
    result            \* util.get_forecast: the frame it returns

\* the variables only the inference pipeline uses
inference_vars ==
    <<batch_data, historical_aq, predictions_list, regressor_calls, forecasts_fg>>

\* the variables only the weather request of util.py uses
weather_vars == <<api_responses, result>>

vars == <<pc, data, combined_df, air_quality_df, weather_df,
          air_quality_fg, weather_fg, fs_at_start, today, loc_idx, responses,
          inference_vars, weather_vars>>

\* the variables only the daily and the inference pipeline use
other_scripts == <<today, loc_idx, responses, inference_vars, weather_vars>>

(***************************************************************************)
(* Bounds and input domains                                                *)
(***************************************************************************)
\* number of calendar days covered by the historical CSV files
MaxDate == 4

\* keys of locations.json, in file order
LocationIds == <<"X1", "X2">>

Locations == {LocationIds[i] : i \in 1..Len(LocationIds)}

\* position of an id in the lexicographic order of ids (sort_values on 'id')
IdRank(id) == CHOOSE i \in 1..Len(LocationIds) : LocationIds[i] = id

\* the pm25 reading of location l on day d: every (location, day) gets a
\* value of its own, so that a lag shows which observation it was taken from
Reading(l, d) == 10 * d + 5 * (IdRank(l) - 1)

NaN == <<>>

Some(v) == <<v>>

(***************************************************************************)
(* pandas helpers                                                          *)
(***************************************************************************)
\* the value rows are compared by in column c: ids in lexicographic order
ColumnKey(r, c) == IF c = "id" THEN IdRank(r.id) ELSE r[c]

\* r sorts strictly before q by the columns `by`
RowBefore(r, q, by, ascending) ==
    \E i \in 1..Len(by) :
        /\ \A j \in 1..i - 1 : ColumnKey(r, by[j]) = ColumnKey(q, by[j])
        /\ IF ascending
           THEN ColumnKey(r, by[i]) < ColumnKey(q, by[i])
           ELSE ColumnKey(r, by[i]) > ColumnKey(q, by[i])

\* DataFrame.sort_values(by, ascending): row j goes to the position that
\* counts the rows before it (rows that tie keep their input order)
sort_values(df, by, ascending) ==
    LET rank(j) == Cardinality({k \in 1..Len(df) :
                        \/ RowBefore(df[k], df[j], by, ascending)
                        \/ /\ ~RowBefore(df[j], df[k], by, ascending)
                           /\ k <= j})
    IN  [i \in 1..Len(df) |-> df[CHOOSE j \in 1..Len(df) : rank(j) = i]]

\* Series.shift(k): the value k positions earlier, NaN for the first k rows
shift(series, k) ==
    [p \in 1..Len(series) |-> IF p - k >= 1 THEN Some(series[p - k]) ELSE NaN]

\* pd.concat(dfs, ignore_index=True)
RECURSIVE concat(_)
concat(dfs) == IF dfs = <<>> THEN <<>> ELSE Head(dfs) \o concat(Tail(dfs))

\* a dropna that drops a row only when every column of the subset is NaN
dropna_how_all(df, subset) ==
    SelectSeq(df, LAMBDA r : \E c \in subset : r[c] # NaN)

\* DataFrame.dropna(subset=...)
dropna(df, subset) == SelectSeq(df, LAMBDA r : \A c \in subset : r[c] # NaN)

\* feature_group.insert: rows are keyed by id and event time
insert(fg, rows) ==
    rows \cup {r \in fg : ~\E n \in rows : n.id = r.id /\ n.date = r.date}

(***************************************************************************)
(* backfill-feature-pipeline.py                                            *)
(***************************************************************************)
\* pd.read_csv + process_air_quality for one location: the rows [id, date,
\* pm25] of the file, newest first (the file is not sorted by ascending date)
RECURSIVE read_csv(_, _, _)
read_csv(obs, l, d) ==
    IF d < 1 THEN <<>>
    ELSE (IF <<l, d>> \in obs
          THEN <<[id |-> l, date |-> d, pm25 |-> Reading(l, d)]>>
          ELSE <<>>) \o read_csv(obs, l, d - 1)

\* number of rows of the same location at or before position i
PositionInLocation(df, i) ==
    Cardinality({j \in 1..i : df[j].id = df[i].id})

\* an add_lagged_features that shifts the frame in file order, without
\* the sort of line 47
add_lagged_features_unsorted(df) ==
    LET location_data(l) == SelectSeq(df, LAMBDA r : r.id = l)
        pm25(l) == [p \in 1..Len(location_data(l)) |-> location_data(l)[p].pm25]
    IN  [i \in 1..Len(df) |->
            LET r == df[i]
                p == PositionInLocation(df, i)
            IN  [id |-> r.id, date |-> r.date, pm25 |-> r.pm25,
                 lagged_1 |-> shift(pm25(r.id), 1)[p],
                 lagged_2 |-> shift(pm25(r.id), 2)[p],
                 lagged_3 |-> shift(pm25(r.id), 3)[p]]]

\* add_lagged_features(df) of the backfill pipeline
add_lagged_features(df0) ==
    LET df == sort_values(df0, <<"id", "date">>, TRUE)
        location_data(l) == SelectSeq(df, LAMBDA r : r.id = l)
        pm25(l) == [p \in 1..Len(location_data(l)) |-> location_data(l)[p].pm25]
    IN  [i \in 1..Len(df) |->
            LET r == df[i]
                p == PositionInLocation(df, i)
            IN  [id |-> r.id, date |-> r.date, pm25 |-> r.pm25,
                 lagged_1 |-> shift(pm25(r.id), 1)[p],
                 lagged_2 |-> shift(pm25(r.id), 2)[p],
                 lagged_3 |-> shift(pm25(r.id), 3)[p]]]

\* the value the weather provider reports for location l, day d and the
\* variable number v of OPENMETEO_DAILY_VARIABLES
WeatherValue(l, d, v) == 1000 * IdRank(l) + 10 * d + v

\* the weather row of location l and day d
WeatherRow(l, d) ==
    [id |-> l, date |-> d,
     temperature_2m_mean |-> WeatherValue(l, d, 1),
     precipitation_sum |-> WeatherValue(l, d, 2),
     wind_speed_10m_max |-> WeatherValue(l, d, 3),
     wind_direction_10m_dominant |-> WeatherValue(l, d, 4)]

\* rows of a frame as a set
Rows(df) == {df[i] : i \in 1..Len(df)}

\* util.get_historical: one weather row per location and day between the
\* first and the last date the location has in aq_df
get_historical(aq_df) ==
    {WeatherRow(x[1], x[2]) :
        x \in {y \in Locations \X (1..MaxDate) :
            LET ds == {r.date : r \in {q \in Rows(aq_df) : q.id = y[1]}}
            IN  \E lo \in ds, hi \in ds : lo <= y[2] /\ y[2] <= hi}}

InitBackfill ==
    /\ pc = "load"
    /\ data \in SUBSET (Locations \X (1..MaxDate))
    /\ combined_df = <<>>
    /\ air_quality_df = <<>>
    /\ weather_df = {}
    /\ air_quality_fg = {}
    /\ weather_fg = {}
    /\ fs_at_start = <<{}, {}>>
    /\ today = MaxDate + 1
    /\ loc_idx = 1
    /\ responses = <<>>
    /\ batch_data = <<>>
    /\ historical_aq = <<>>
    /\ predictions_list = <<>>
    /\ regressor_calls = <<>>
    /\ forecasts_fg = {}
    /\ api_responses = <<>>
    /\ result = <<>>

\* load_air_quality_data, lines 68-82: read every file and concatenate
BackfillConcat ==
    /\ pc = "load"
    /\ combined_df' = concat([i \in 1..Len(LocationIds) |->
                                 read_csv(data, LocationIds[i], MaxDate)])
    /\ pc' = "add_lags"
    /\ UNCHANGED <<data, air_quality_df, weather_df, air_quality_fg,
                   weather_fg, fs_at_start, other_scripts>>

\* load_air_quality_data, line 73: a data file is missing
BackfillFileNotFound ==
    /\ pc = "load"
    /\ pc' = "aborted"
    /\ UNCHANGED <<data, combined_df, air_quality_df, weather_df,
                   air_quality_fg, weather_fg, fs_at_start, other_scripts>>

\* load_air_quality_data, line 86
BackfillAddLags ==
    /\ pc = "add_lags"
    /\ combined_df' = add_lagged_features(combined_df)
    /\ pc' = "dropna"
    /\ UNCHANGED <<data, air_quality_df, weather_df, air_quality_fg,
                   weather_fg, fs_at_start, other_scripts>>

\* load_air_quality_data, lines 90-93, and the assignment of line 96
BackfillDropna ==
    /\ pc = "dropna"
    /\ combined_df' = dropna(combined_df, {"lagged_1", "lagged_2", "lagged_3"})
    /\ air_quality_df' = combined_df'
    /\ pc' = "insert_air_quality"
    /\ UNCHANGED <<data, weather_df, air_quality_fg, weather_fg, fs_at_start, other_scripts>>

\* lines 100-114: login, get_or_create_feature_group, air_quality_fg.insert
BackfillInsertAirQuality ==
    /\ pc = "insert_air_quality"
    /\ air_quality_fg' = insert(air_quality_fg, Rows(air_quality_df))
    /\ pc' = "get_historical"
    /\ UNCHANGED <<data, combined_df, air_quality_df, weather_df, weather_fg,
                   fs_at_start, other_scripts>>

\* lines 100-114 raise (login or insert refused): nothing is written
BackfillInsertAirQualityFails ==
    /\ pc = "insert_air_quality"
    /\ pc' = "aborted"
    /\ UNCHANGED <<data, combined_df, air_quality_df, weather_df,
                   air_quality_fg, weather_fg, fs_at_start, other_scripts>>

\* line 124, util.get_historical: min()/max() of no rows is NaN and
\* NaN.strftime raises, so every location needs a row in air_quality_df
BackfillGetHistorical ==
    /\ pc = "get_historical"
    /\ \A l \in Locations : \E r \in Rows(air_quality_df) : r.id = l
    /\ weather_df' = get_historical(air_quality_df)
    /\ pc' = "insert_weather"
    /\ UNCHANGED <<data, combined_df, air_quality_df, air_quality_fg,
                   weather_fg, fs_at_start, other_scripts>>

\* line 124 raises: a location without rows, or the weather request fails
BackfillGetHistoricalFails ==
    /\ pc = "get_historical"
    /\ pc' = "aborted"
    /\ UNCHANGED <<data, combined_df, air_quality_df, weather_df,
                   air_quality_fg, weather_fg, fs_at_start, other_scripts>>

\* lines 128-135: weather_fg.insert(weather_df, wait=True)
BackfillInsertWeather ==
    /\ pc = "insert_weather"
    /\ weather_fg' = insert(weather_fg, weather_df)
    /\ pc' = "done"
    /\ UNCHANGED <<data, combined_df, air_quality_df, weather_df,
                   air_quality_fg, fs_at_start, other_scripts>>

\* lines 128-135 raise
BackfillInsertWeatherFails ==
    /\ pc = "insert_weather"
    /\ pc' = "aborted"
    /\ UNCHANGED <<data, combined_df, air_quality_df, weather_df,
                   air_quality_fg, weather_fg, fs_at_start, other_scripts>>

NextBackfill ==
    \/ BackfillConcat
    \/ BackfillFileNotFound
    \/ BackfillAddLags
    \/ BackfillDropna
    \/ BackfillInsertAirQuality
    \/ BackfillInsertAirQualityFails
    \/ BackfillGetHistorical
    \/ BackfillGetHistoricalFails
    \/ BackfillInsertWeather
    \/ BackfillInsertWeatherFails

SpecBackfill == InitBackfill /\ [][NextBackfill]_vars

(***************************************************************************)
(* util.get_pm25 and daily-feature-pipeline.py                             *)
(***************************************************************************)
\* what one AQICN request can come back with: an HTTP error
\* (raise_for_status), data == "Unknown station", another non-ok status, an
\* ok status without iaqi.pm25.v, an ok status with a reading
ResponseKinds == {"http_error", "unknown_station", "api_error", "no_pm25", "ok"}

\* the response pairs (station request, city request) of one get_pm25 call;
\* the city request is only made after "Unknown station"
ResponsePairs ==
    {<<f, s>> : f \in ResponseKinds \ {"unknown_station"}, s \in {"none"}}
        \cup {<<"unknown_station", s>> : s \in ResponseKinds}

\* util.get_pm25: the frame it returns, or the exception it raises
get_pm25(location_id, measurement_date, first, second) ==
    IF first = "http_error"
    THEN [raised |-> TRUE, df |-> <<>>]
    ELSE LET data_ == IF first = "unknown_station" THEN second ELSE first
         IN  IF data_ = "http_error"
             THEN [raised |-> TRUE, df |-> <<>>]
             ELSE IF data_ \in {"unknown_station", "api_error"}
             THEN [raised |-> TRUE, df |-> <<>>]
             ELSE IF data_ = "no_pm25"
             THEN [raised |-> TRUE, df |-> <<>>]
             ELSE [raised |-> FALSE,
                   df |-> <<[id |-> location_id, date |-> measurement_date,
                             pm25 |-> Reading(location_id, measurement_date)]>>]

\* pd.to_datetime of a date: the timestamp of its midnight, in hours
to_datetime(d) == 24 * d

\* timedelta(days=n), in hours
timedelta(days) == 24 * days

\* feature_group.filter(...).read(): the selected rows as a frame
RECURSIVE read(_)
read(rows) ==
    IF rows = {} THEN <<>>
    ELSE LET r == CHOOSE x \in rows : TRUE IN <<r>> \o read(rows \ {r})

\* a lag lookup that searches the whole window, without the selection of
\* the row's own location of line 48
lagged_value_any_location(historical_data, row, lag) ==
    LET location_history == sort_values(historical_data, <<"date">>, TRUE)
        lag_date == to_datetime(row.date) - timedelta(lag)
        lag_data == SelectSeq(location_history,
                              LAMBDA h : to_datetime(h.date) = lag_date)
    IN  IF lag_data # <<>> THEN Some(lag_data[1].pm25) ELSE NaN

\* the lag column of one of today's rows: lines 48-58
lagged_value(historical_data, row, lag) ==
    LET location_history ==
            sort_values(SelectSeq(historical_data, LAMBDA h : h.id = row.id),
                        <<"date">>, TRUE)
        lag_date == to_datetime(row.date) - timedelta(lag)
        lag_data == SelectSeq(location_history,
                              LAMBDA h : to_datetime(h.date) = lag_date)
    IN  IF lag_data # <<>> THEN Some(lag_data[1].pm25) ELSE NaN

\* a daily add_lagged_features that ends with the completeness filter of the
\* backfill pipeline
daily_add_lagged_features_dropna(df, fg, today_) ==
    LET last_4_days == today_ - 4
        historical_data == read({h \in fg : h.date >= last_4_days})
    IN  dropna([i \in 1..Len(df) |->
                  [id |-> df[i].id, date |-> df[i].date, pm25 |-> df[i].pm25,
                   lagged_1 |-> lagged_value(historical_data, df[i], 1),
                   lagged_2 |-> lagged_value(historical_data, df[i], 2),
                   lagged_3 |-> lagged_value(historical_data, df[i], 3)]],
               {"lagged_1", "lagged_2", "lagged_3"})

\* add_lagged_features(air_quality_df, air_quality_fg) of the daily pipeline
daily_add_lagged_features(df, fg, today_) ==
    LET last_4_days == today_ - 4
        historical_data == read({h \in fg : h.date >= last_4_days})
    IN  [i \in 1..Len(df) |->
            [id |-> df[i].id, date |-> df[i].date, pm25 |-> df[i].pm25,
             lagged_1 |-> lagged_value(historical_data, df[i], 1),
             lagged_2 |-> lagged_value(historical_data, df[i], 2),
             lagged_3 |-> lagged_value(historical_data, df[i], 3)]]

\* util.get_forecast(forecast_days, places): one row per location and day
get_forecast(forecast_days, today_) ==
    {WeatherRow(x[1], x[2]) :
        x \in Locations \X (today_..today_ + forecast_days - 1)}

\* a row the air_quality feature group holds from earlier runs, the lags as
\* the earlier daily runs looked them up
StoredRow(obs, l, d) ==
    [id |-> l, date |-> d, pm25 |-> Reading(l, d),
     lagged_1 |-> IF <<l, d - 1>> \in obs THEN Some(Reading(l, d - 1)) ELSE NaN,
     lagged_2 |-> IF <<l, d - 2>> \in obs THEN Some(Reading(l, d - 2)) ELSE NaN,
     lagged_3 |-> IF <<l, d - 3>> \in obs THEN Some(Reading(l, d - 3)) ELSE NaN]

\* the contents the air_quality feature group can have before a run: at
\* most one row per location and day of the days 1..MaxDate
StoredHistories ==
    {{StoredRow(obs, x[1], x[2]) : x \in obs} :
        obs \in SUBSET (Locations \X (1..MaxDate))}

InitDaily ==
    /\ pc = "ingest"
    /\ data = {}
    /\ combined_df = <<>>
    /\ air_quality_df = <<>>
    /\ weather_df = {}
    /\ air_quality_fg \in StoredHistories
    /\ weather_fg = {}
    /\ fs_at_start = <<air_quality_fg, weather_fg>>
    /\ today \in {MaxDate + 1, MaxDate + 2}
    /\ loc_idx = 1
    /\ responses = <<>>
    /\ batch_data = <<>>
    /\ historical_aq = <<>>
    /\ predictions_list = <<>>
    /\ regressor_calls = <<>>
    /\ forecasts_fg = {}
    /\ api_responses = <<>>
    /\ result = <<>>

\* a loop body without the try/except of lines 73-79: a failing get_pm25
\* ends the run
DailyIngestNoExcept ==
    /\ pc = "ingest"
    /\ loc_idx <= Len(LocationIds)
    /\ \E rp \in ResponsePairs :
          LET aq_data == get_pm25(LocationIds[loc_idx], today, rp[1], rp[2])
          IN  /\ air_quality_df' = air_quality_df \o aq_data.df
              /\ pc' = IF aq_data.raised THEN "aborted" ELSE pc
              /\ responses' = Append(responses, rp)
    /\ loc_idx' = loc_idx + 1
    /\ UNCHANGED <<data, combined_df, weather_df, air_quality_fg, weather_fg,
                   fs_at_start, today,
                   inference_vars,
                   weather_vars>>

\* lines 72-79: one iteration of the ingestion loop
DailyIngest ==
    /\ pc = "ingest"
    /\ loc_idx <= Len(LocationIds)
    /\ \E rp \in ResponsePairs :
          LET aq_data == get_pm25(LocationIds[loc_idx], today, rp[1], rp[2])
          IN  /\ air_quality_df' = IF aq_data.raised
                                   THEN air_quality_df
                                   ELSE air_quality_df \o aq_data.df
              /\ responses' = Append(responses, rp)
    /\ loc_idx' = loc_idx + 1
    /\ UNCHANGED <<pc, data, combined_df, weather_df, air_quality_fg,
                   weather_fg, fs_at_start, today,
                   inference_vars,
                   weather_vars>>

\* line 84: util.get_forecast(forecast_days=10, places=locations)
DailyGetForecast ==
    /\ pc = "ingest"
    /\ loc_idx > Len(LocationIds)
    /\ weather_df' = get_forecast(10, today)
    /\ pc' = "add_lags"
    /\ UNCHANGED <<data, combined_df, air_quality_df, air_quality_fg,
                   weather_fg, fs_at_start, today, loc_idx, responses,
                   inference_vars,
                   weather_vars>>

\* line 84 raises (the weather request fails after its retries)
DailyGetForecastFails ==
    /\ pc = "ingest"
    /\ loc_idx > Len(LocationIds)
    /\ pc' = "aborted"
    /\ UNCHANGED <<data, combined_df, air_quality_df, weather_df,
                   air_quality_fg, weather_fg, fs_at_start, today, loc_idx,
                   responses,
                   inference_vars,
                   weather_vars>>

\* lines 88-98: login, get_feature_group, add_lagged_features
DailyAddLags ==
    /\ pc = "add_lags"
    /\ air_quality_df' =
          daily_add_lagged_features(air_quality_df, air_quality_fg, today)
    /\ pc' = "insert_air_quality"
    /\ UNCHANGED <<data, combined_df, weather_df, air_quality_fg, weather_fg,
                   fs_at_start, today, loc_idx, responses,
                   inference_vars,
                   weather_vars>>

\* lines 88-98 raise (login, get_feature_group or the read of line 40)
DailyAddLagsFails ==
    /\ pc = "add_lags"
    /\ pc' = "aborted"
    /\ UNCHANGED <<data, combined_df, air_quality_df, weather_df,
                   air_quality_fg, weather_fg, fs_at_start, today, loc_idx,
                   responses,
                   inference_vars,
                   weather_vars>>

\* line 104: air_quality_fg.insert(air_quality_df)
DailyInsertAirQuality ==
    /\ pc = "insert_air_quality"
    /\ air_quality_fg' = insert(air_quality_fg, Rows(air_quality_df))
    /\ pc' = "insert_weather"
    /\ UNCHANGED <<data, combined_df, air_quality_df, weather_df, weather_fg,
                   fs_at_start, today, loc_idx, responses,
                   inference_vars,
                   weather_vars>>

\* line 104 raises
DailyInsertAirQualityFails ==
    /\ pc = "insert_air_quality"
    /\ pc' = "aborted"
    /\ UNCHANGED <<data, combined_df, air_quality_df, weather_df,
                   air_quality_fg, weather_fg, fs_at_start, today, loc_idx,
                   responses,
                   inference_vars,
                   weather_vars>>

\* line 108: weather_fg.insert(weather_df, wait=True)
DailyInsertWeather ==
    /\ pc = "insert_weather"
    /\ weather_fg' = insert(weather_fg, weather_df)
    /\ pc' = "done"
    /\ UNCHANGED <<data, combined_df, air_quality_df, weather_df,
                   air_quality_fg, fs_at_start, today, loc_idx, responses,
                   inference_vars,
                   weather_vars>>

\* line 108 raises
DailyInsertWeatherFails ==
    /\ pc = "insert_weather"
    /\ pc' = "aborted"
    /\ UNCHANGED <<data, combined_df, air_quality_df, weather_df,
                   air_quality_fg, weather_fg, fs_at_start, today, loc_idx,
                   responses,
                   inference_vars,
                   weather_vars>>

NextDaily ==
    \/ DailyIngest
    \/ DailyGetForecast
    \/ DailyGetForecastFails
    \/ DailyAddLags
    \/ DailyAddLagsFails
    \/ DailyInsertAirQuality
    \/ DailyInsertAirQualityFails
    \/ DailyInsertWeather
    \/ DailyInsertWeatherFails

SpecDaily == InitDaily /\ [][NextDaily]_vars

(***************************************************************************)
(* batch-inference-pipeline.py                                             *)
(***************************************************************************)
\* bound: the number of forecast days a location can have in the weather
\* feature group
MaxForecastDays == 3

\* line 67
lookback_days == 3

\* the values the regressor can return for a feature vector
RegressorOutputs == {-1, 1}

\* a clip that lets negative values through
clip_nothing(prediction) == prediction

\* line 132: max(0, prediction)
clip(prediction) == IF prediction > 0 THEN prediction ELSE 0

\* lines 118-126: the feature vector, in the column order of training
feature_row(lagged_1, lagged_2, lagged_3, weather_row) ==
    [lagged_1 |-> lagged_1, lagged_2 |-> lagged_2, lagged_3 |-> lagged_3,
     weather_temperature_2m_mean |-> weather_row.temperature_2m_mean,
     weather_precipitation_sum |-> weather_row.precipitation_sum,
     weather_wind_speed_10m_max |-> weather_row.wind_speed_10m_max,
     weather_wind_direction_10m_dominant |->
         weather_row.wind_direction_10m_dominant]

\* a prediction loop that feeds each prediction back as the next day's
\* lagged_1 and moves the older lags on by one
location_calls_chained(location_id, location_weather, location_history, outputs) ==
    LET lags(k) ==
            <<IF k = 1 THEN location_history[1].pm25 ELSE clip(outputs[k - 1]),
              IF k = 1 THEN location_history[2].pm25
              ELSE IF k = 2 THEN location_history[1].pm25
              ELSE clip(outputs[k - 2]),
              IF k <= 3 THEN location_history[4 - k].pm25
              ELSE clip(outputs[k - 3])>>
    IN  [k \in 1..Len(location_weather) |->
            [id |-> location_id,
             X_pred |-> feature_row(lags(k)[1], lags(k)[2], lags(k)[3],
                                    location_weather[k]),
             output |-> outputs[k]]]

\* lines 105-131 for one location: the feature vector built for each weather
\* row and the value the regressor returns for it
location_calls(location_id, location_weather, location_history, outputs) ==
    LET lagged_1 == location_history[1].pm25
        lagged_2 == location_history[2].pm25
        lagged_3 == location_history[3].pm25
    IN  [k \in 1..Len(location_weather) |->
            [id |-> location_id,
             X_pred |-> feature_row(lagged_1, lagged_2, lagged_3,
                                    location_weather[k]),
             output |-> outputs[k]]]

\* lines 132-139 for one location: the predictions appended
location_predictions(location_id, location_weather, outputs, today_) ==
    [k \in 1..Len(location_weather) |->
        [id |-> location_id, date |-> location_weather[k].date,
         predicted_pm25 |-> clip(outputs[k]), forecast_date |-> today_]]

\* the contents of the weather feature group before an inference run: for
\* every location yesterday's row and up to MaxForecastDays rows from today
StoredForecasts(today_) ==
    {UNION {{WeatherRow(l, d) : d \in today_ - 1..today_ + n[l] - 1} :
                l \in Locations} :
        n \in [Locations -> 0..MaxForecastDays]}

\* the contents of the air_quality feature group before an inference run:
\* at most one row per location and day of the last lookback_days + 1 days
\* up to MaxDate (the run is made on day MaxDate or on the day after)
RecentHistories ==
    {{StoredRow(obs, x[1], x[2]) : x \in obs} :
        obs \in SUBSET (Locations \X (MaxDate - lookback_days..MaxDate))}

InitInference ==
    /\ pc = "read_history"
    /\ data = {}
    /\ combined_df = <<>>
    /\ air_quality_df = <<>>
    /\ weather_df = {}
    /\ air_quality_fg \in RecentHistories
    /\ today \in {MaxDate, MaxDate + 1}
    /\ weather_fg \in StoredForecasts(today)
    /\ fs_at_start = <<air_quality_fg, weather_fg>>
    /\ loc_idx = 1
    /\ responses = <<>>
    /\ batch_data = read({w \in weather_fg : w.date >= today})
    /\ historical_aq = <<>>
    /\ predictions_list = <<>>
    /\ regressor_calls = <<>>
    /\ forecasts_fg = {}
    /\ api_responses = <<>>
    /\ result = <<>>

\* lines 67-74 and 83: the lookback read from air_quality version 3
InferenceReadVersion3 ==
    /\ pc = "read_history"
    /\ historical_aq' =
          sort_values(read({r \in air_quality_fg : r.date >= today - lookback_days}),
                      <<"id", "date">>, TRUE)
    /\ pc' = "predict"
    /\ UNCHANGED <<data, combined_df, air_quality_df, weather_df,
                   air_quality_fg, weather_fg, fs_at_start, today, loc_idx,
                   responses, batch_data, predictions_list, regressor_calls,
                   forecasts_fg,
                   weather_vars>>

\* lines 75-83: version 3 raised, the lookback read falls back to
\* air_quality version 2, which holds the columns id, date, pm25
InferenceReadVersion2 ==
    /\ pc = "read_history"
    /\ historical_aq' =
          sort_values(read({[id |-> r.id, date |-> r.date, pm25 |-> r.pm25] :
                               r \in {x \in air_quality_fg :
                                         x.date >= today - lookback_days}}),
                      <<"id", "date">>, TRUE)
    /\ pc' = "predict"
    /\ UNCHANGED <<data, combined_df, air_quality_df, weather_df,
                   air_quality_fg, weather_fg, fs_at_start, today, loc_idx,
                   responses, batch_data, predictions_list, regressor_calls,
                   forecasts_fg,
                   weather_vars>>

\* lines 75-79 raise as well: the run ends
InferenceReadFails ==
    /\ pc = "read_history"
    /\ pc' = "aborted"
    /\ UNCHANGED <<data, combined_df, air_quality_df, weather_df,
                   air_quality_fg, weather_fg, fs_at_start, today, loc_idx,
                   responses, inference_vars,
                   weather_vars>>

\* line 92
LocationWeather(location_id) ==
    SelectSeq(batch_data, LAMBDA w : w.id = location_id)

\* line 99
LocationHistory(location_id) ==
    sort_values(SelectSeq(historical_aq, LAMBDA h : h.id = location_id),
                <<"date">>, FALSE)

\* lines 94-96: no weather forecast for the location, continue
InferenceNoWeather ==
    /\ pc = "predict"
    /\ loc_idx <= Len(LocationIds)
    /\ LocationWeather(LocationIds[loc_idx]) = <<>>
    /\ loc_idx' = loc_idx + 1
    /\ UNCHANGED <<pc, data, combined_df, air_quality_df, weather_df,
                   air_quality_fg, weather_fg, fs_at_start, today, responses,
                   inference_vars,
                   weather_vars>>

\* lines 101-103: fewer than 3 historical records, continue
InferenceNotEnoughHistory ==
    /\ pc = "predict"
    /\ loc_idx <= Len(LocationIds)
    /\ LocationWeather(LocationIds[loc_idx]) # <<>>
    /\ Len(LocationHistory(LocationIds[loc_idx])) < 3
    /\ loc_idx' = loc_idx + 1
    /\ UNCHANGED <<pc, data, combined_df, air_quality_df, weather_df,
                   air_quality_fg, weather_fg, fs_at_start, today, responses,
                   inference_vars,
                   weather_vars>>

\* lines 105-141: the predictions of one location
InferencePredict ==
    /\ pc = "predict"
    /\ loc_idx <= Len(LocationIds)
    /\ LocationWeather(LocationIds[loc_idx]) # <<>>
    /\ Len(LocationHistory(LocationIds[loc_idx])) >= 3
    /\ LET location_id == LocationIds[loc_idx]
           location_weather == LocationWeather(location_id)
       IN  \E outputs \in [1..Len(location_weather) -> RegressorOutputs] :
               /\ regressor_calls' = regressor_calls \o
                     location_calls(location_id, location_weather,
                                    LocationHistory(location_id), outputs)
               /\ predictions_list' = predictions_list \o
                     location_predictions(location_id, location_weather,
                                          outputs, today)
    /\ loc_idx' = loc_idx + 1
    /\ UNCHANGED <<pc, data, combined_df, air_quality_df, weather_df,
                   air_quality_fg, weather_fg, fs_at_start, today, responses,
                   batch_data, historical_aq, forecasts_fg,
                   weather_vars>>

\* lines 144-164: forecast_data is built and inserted
InferenceSave ==
    /\ pc = "predict"
    /\ loc_idx > Len(LocationIds)
    /\ predictions_list # <<>>
    /\ forecasts_fg' = forecasts_fg \cup Rows(predictions_list)
    /\ pc' = "done"
    /\ UNCHANGED <<data, combined_df, air_quality_df, weather_df,
                   air_quality_fg, weather_fg, fs_at_start, today, loc_idx,
                   responses, batch_data, historical_aq, predictions_list,
                   regressor_calls,
                   weather_vars>>

\* line 147: pd.DataFrame([]) has no column predicted_pm25, so the column
\* conversion raises KeyError when no prediction was made
InferenceSaveNoPredictions ==
    /\ pc = "predict"
    /\ loc_idx > Len(LocationIds)
    /\ predictions_list = <<>>
    /\ pc' = "aborted"
    /\ UNCHANGED <<data, combined_df, air_quality_df, weather_df,
                   air_quality_fg, weather_fg, fs_at_start, today, loc_idx,
                   responses, inference_vars,
                   weather_vars>>

\* lines 155-163 raise
InferenceSaveFails ==
    /\ pc = "predict"
    /\ loc_idx > Len(LocationIds)
    /\ predictions_list # <<>>
    /\ pc' = "aborted"
    /\ UNCHANGED <<data, combined_df, air_quality_df, weather_df,
                   air_quality_fg, weather_fg, fs_at_start, today, loc_idx,
                   responses, inference_vars,
                   weather_vars>>

NextInference ==
    \/ InferenceReadVersion3
    \/ InferenceReadVersion2
    \/ InferenceReadFails
    \/ InferenceNoWeather
    \/ InferenceNotEnoughHistory
    \/ InferencePredict
    \/ InferenceSave
    \/ InferenceSaveNoPredictions
    \/ InferenceSaveFails

SpecInference == InitInference /\ [][NextInference]_vars

(***************************************************************************)
(* util.py: the weather request and _process_weather_responses             *)
(***************************************************************************)
\* bound: the number of days one weather response can cover
MaxResponseDays == 2

\* lines 8-13
OPENMETEO_DAILY_VARIABLES ==
    <<"temperature_2m_mean", "precipitation_sum", "wind_speed_10m_max",
      "wind_direction_10m_dominant">>

\* pd.date_range(start, end, freq, inclusive="left"), followed by .dt.date
date_range(start, end, freq) ==
    [k \in 1..(end - start) \div freq |-> start + (k - 1) * freq]

\* the response the provider computes for location l: n days from day
\* `start`; gaps[k] is 0 when day k is complete and else the number of the
\* variable the provider has no value for on that day
Response(l, start, n, gaps) ==
    [origin |-> l, Time |-> start, TimeEnd |-> start + n, Interval |-> 1,
     Variables |-> [v \in 1..Len(OPENMETEO_DAILY_VARIABLES) |->
                      [k \in 1..n |->
                          IF gaps[k] = v THEN NaN
                          ELSE Some(WeatherValue(l, start + k - 1, v))]]]

\* the responses the provider can give for one location
ResponsesFor(l, start) ==
    UNION {{Response(l, start, n, gaps) :
               gaps \in [1..n -> 0..Len(OPENMETEO_DAILY_VARIABLES)]} :
           n \in 1..MaxResponseDays}

\* the orders in which the provider can return its responses
Orders ==
    {o \in [1..Len(LocationIds) -> 1..Len(LocationIds)] :
        \A i, j \in 1..Len(LocationIds) : o[i] = o[j] => i = j}

\* lines 30-44: the frame built from one response, labelled place_id
response_frame(response, place_id, variables) ==
    LET dates == date_range(response.Time, response.TimeEnd, response.Interval)
        column(c) == CHOOSE idx \in 1..Len(variables) : variables[idx] = c
    IN  [k \in 1..Len(dates) |->
            [c \in {"id", "date"} \cup {variables[v] : v \in 1..Len(variables)} |->
                IF c = "id" THEN place_id
                ELSE IF c = "date" THEN dates[k]
                ELSE response.Variables[column(c)][k]]]

\* a _process_weather_responses that pairs the responses with the place ids
\* in descending order
process_weather_responses_reversed(responses_, places, variables) ==
    LET n == IF Len(responses_) < Len(places) THEN Len(responses_) ELSE Len(places)
        dataframes == [i \in 1..n |->
                          response_frame(responses_[i],
                                         places[Len(places) + 1 - i], variables)]
    IN  dropna(concat(dataframes), {variables[v] : v \in 1..Len(variables)})

\* _process_weather_responses, lines 23-49: zip pairs response i with place
\* i; dropna drops a row with a NaN in any column (id and date never are)
process_weather_responses(responses_, places, variables) ==
    LET n == IF Len(responses_) < Len(places) THEN Len(responses_) ELSE Len(places)
        dataframes == [i \in 1..n |->
                          response_frame(responses_[i], places[i], variables)]
    IN  dropna(concat(dataframes), {variables[v] : v \in 1..Len(variables)})

InitWeather ==
    /\ pc = "weather_api"
    /\ data = {}
    /\ combined_df = <<>>
    /\ air_quality_df = <<>>
    /\ weather_df = {}
    /\ air_quality_fg = {}
    /\ weather_fg = {}
    /\ fs_at_start = <<{}, {}>>
    /\ today = MaxDate + 1
    /\ loc_idx = 1
    /\ responses = <<>>
    /\ batch_data = <<>>
    /\ historical_aq = <<>>
    /\ predictions_list = <<>>
    /\ regressor_calls = <<>>
    /\ forecasts_fg = {}
    /\ api_responses = <<>>
    /\ result = <<>>

\* get_forecast, lines 54-64: the provider answers with one response per
\* requested location, in some order
WeatherApi ==
    /\ pc = "weather_api"
    /\ \E o \in Orders :
          \E rs \in [1..Len(LocationIds) ->
                        UNION {ResponsesFor(l, today) : l \in Locations}] :
              /\ \A i \in 1..Len(LocationIds) :
                    rs[i].origin = LocationIds[o[i]]
              /\ api_responses' = rs
    /\ pc' = "process"
    /\ UNCHANGED <<data, combined_df, air_quality_df, weather_df,
                   air_quality_fg, weather_fg, fs_at_start, today, loc_idx,
                   responses, inference_vars, result>>

\* line 64 raises (the request fails after its retries)
WeatherApiFails ==
    /\ pc = "weather_api"
    /\ pc' = "aborted"
    /\ UNCHANGED <<data, combined_df, air_quality_df, weather_df,
                   air_quality_fg, weather_fg, fs_at_start, today, loc_idx,
                   responses, inference_vars, weather_vars>>

\* line 66: _process_weather_responses(responses, places, variables)
WeatherProcess ==
    /\ pc = "process"
    /\ result' = process_weather_responses(api_responses, LocationIds,
                                           OPENMETEO_DAILY_VARIABLES)
    /\ pc' = "done"
    /\ UNCHANGED <<data, combined_df, air_quality_df, weather_df,
                   air_quality_fg, weather_fg, fs_at_start, today, loc_idx,
                   responses, inference_vars, api_responses>>

NextWeather ==
    \/ WeatherApi
    \/ WeatherApiFails
    \/ WeatherProcess

SpecWeather == InitWeather /\ [][NextWeather]_vars

(***************************************************************************)
(* Claims on the backfill pipeline                                         *)
(***************************************************************************)
Lags == 1..3

\* the lag column K of a row
Lagged(r, K) ==
    IF K = 1 THEN r.lagged_1 ELSE IF K = 2 THEN r.lagged_2 ELSE r.lagged_3

\* C1: in the table add_lagged_features returns (before the completeness
\* filter), lagged_K of a row (L, D) is populated if and only if the table
\* holds an observation of L at exactly D - K.
C1_LagPopulatedIffObservationAtExactDay ==
    pc = "dropna" =>
        \A r \in Rows(combined_df) : \A K \in Lags :
            Lagged(r, K) # NaN
                <=> \E q \in Rows(combined_df) :
                        q.id = r.id /\ q.date = r.date - K

\* C3: for every location L and day D with observations at D, D-1, D-2 and
\* D-3, the table load_air_quality_data returns has exactly one row (L, D),
\* and its lags are L's readings of D-1, D-2 and D-3; a location observed on
\* exactly the days 1..4 (pm25 10, 20, 30, 40 for X1) yields exactly one
\* row, for day 4, with lags 30, 20, 10.
C3_LagCorrectness ==
    pc = "insert_air_quality" =>
        /\ \A l \in Locations : \A d \in 4..MaxDate :
              (\A k \in 0..3 : <<l, d - k>> \in data) =>
                  {r \in Rows(air_quality_df) : r.id = l /\ r.date = d}
                    = {[id |-> l, date |-> d, pm25 |-> Reading(l, d),
                        lagged_1 |-> Some(Reading(l, d - 1)),
                        lagged_2 |-> Some(Reading(l, d - 2)),
                        lagged_3 |-> Some(Reading(l, d - 3))]}
        /\ {d \in 1..MaxDate : <<"X1", d>> \in data} = 1..4 =>
              SelectSeq(air_quality_df, LAMBDA r : r.id = "X1")
                = <<[id |-> "X1", date |-> 4, pm25 |-> 40,
                     lagged_1 |-> Some(30), lagged_2 |-> Some(20),
                     lagged_3 |-> Some(10)]>>

\* C3 witness: X1 was observed on exactly the days 1..4 and the returned
\* table holds its row of day 4 with the lags 30, 20, 10
C3_Witness ==
    /\ pc = "insert_air_quality"
    /\ {d \in 1..MaxDate : <<"X1", d>> \in data} = 1..4
    /\ \E r \in Rows(air_quality_df) :
          /\ r.id = "X1" /\ r.date = 4
          /\ r.lagged_1 = Some(30) /\ r.lagged_2 = Some(20)
          /\ r.lagged_3 = Some(10)

\* C4: every row of the table load_air_quality_data returns, and so every
\* row inserted into the air_quality feature group, has lagged_1, lagged_2
\* and lagged_3 present.
C4_CompletenessFilter ==
    /\ pc \in {"insert_air_quality", "get_historical", "insert_weather", "done"} =>
          \A r \in Rows(air_quality_df) : \A K \in Lags : Lagged(r, K) # NaN
    /\ \A r \in air_quality_fg : \A K \in Lags : Lagged(r, K) # NaN

\* C4 witness: the filter has dropped rows and kept others, and the kept
\* rows have been inserted
C4_Witness ==
    /\ pc = "get_historical"
    /\ air_quality_fg # {}
    /\ Cardinality(air_quality_fg) < Cardinality(data)

(***************************************************************************)
(* Claims on the daily pipeline and on the write paths                     *)
(***************************************************************************)
\* the columns id, date, pm25 of a row
Observation(r) == [id |-> r.id, date |-> r.date, pm25 |-> r.pm25]

\* a get_pm25 call succeeds when the request that is finally used came back
\* with status ok and a PM2.5 value
Succeeded(rp) == rp[1] = "ok" \/ (rp[1] = "unknown_station" /\ rp[2] = "ok")

\* C2: the lags the daily add_lagged_features gives a row (L, D) from the
\* trailing window are the lags the backfill add_lagged_features gives the
\* row (L, D) from a table holding the same observations.
C2_BatchIncrementalEquivalence ==
    pc = "insert_air_quality" =>
        \A r \in Rows(air_quality_df) :
            LET window == {Observation(h) :
                              h \in {x \in air_quality_fg :
                                        x.date >= today - 4 /\ x.id = r.id}}
                batch == add_lagged_features(read(window) \o <<Observation(r)>>)
            IN  \E q \in Rows(batch) :
                    /\ q.id = r.id /\ q.date = r.date
                    /\ \A K \in Lags : Lagged(q, K) = Lagged(r, K)

\* C5: the table the daily add_lagged_features returns, and the insert
\* stores, holds exactly one row (id, today, pm25) for every location whose
\* ingestion succeeded and no other row, whatever lags were found.
C5_DailyNeverDropsARow ==
    /\ pc \in {"insert_air_quality", "insert_weather", "done"} =>
          /\ \A i \in 1..Len(LocationIds) :
                Cardinality({j \in 1..Len(air_quality_df) :
                                air_quality_df[j].id = LocationIds[i]})
                    = IF Succeeded(responses[i]) THEN 1 ELSE 0
          /\ \A r \in Rows(air_quality_df) :
                Observation(r) = [id |-> r.id, date |-> today,
                                  pm25 |-> Reading(r.id, today)]
    /\ pc \in {"insert_weather", "done"} =>
          Rows(air_quality_df) \subseteq air_quality_fg

\* C5 witness: two rows were inserted, one with no lag found and one with
\* some but not all lags found
C5_Witness ==
    /\ pc = "insert_weather"
    /\ \E r, q \in air_quality_fg :
          /\ r.date = today /\ q.date = today
          /\ \A K \in Lags : Lagged(r, K) = NaN
          /\ \E K \in Lags : Lagged(q, K) = NaN
          /\ \E K \in Lags : Lagged(q, K) # NaN

\* C9: a failing get_pm25 never ends the run inside the ingestion loop, and
\* after every iteration air_quality_df holds exactly one row for each
\* location processed so far whose call succeeded and none for a failed one.
C9_IngestionIsolation ==
    /\ pc = "aborted" => loc_idx > Len(LocationIds)
    /\ pc = "ingest" =>
          /\ Len(responses) = loc_idx - 1
          /\ \A i \in 1..Len(responses) :
                Cardinality({j \in 1..Len(air_quality_df) :
                                air_quality_df[j].id = LocationIds[i]})
                    = IF Succeeded(responses[i]) THEN 1 ELSE 0

\* C9 witness: the loop is over, the call of the first location failed and
\* the only row is the row of the second location
C9_Witness ==
    /\ pc = "ingest"
    /\ loc_idx > Len(LocationIds)
    /\ ~Succeeded(responses[1])
    /\ Succeeded(responses[2])
    /\ Len(air_quality_df) = 1
    /\ air_quality_df[1].id = LocationIds[2]

\* C10: a run that ends with a failure leaves both feature groups as they
\* were when the run started.
C10_NoPartialCommit ==
    pc = "aborted" => <<air_quality_fg, weather_fg>> = fs_at_start

(***************************************************************************)
(* Claims on the inference pipeline                                        *)
(***************************************************************************)
\* the calls made for a location
CallsOf(l) == {k \in 1..Len(regressor_calls) : regressor_calls[k].id = l}

\* the predictions made for a location
PredictionsOf(l) == {k \in 1..Len(predictions_list) : predictions_list[k].id = l}

\* C6: within a run, all feature vectors built for one location carry the
\* same triple (lagged_1, lagged_2, lagged_3).
C6_LagBroadcast ==
    \A j, k \in 1..Len(regressor_calls) :
        regressor_calls[j].id = regressor_calls[k].id =>
            /\ regressor_calls[j].X_pred.lagged_1 = regressor_calls[k].X_pred.lagged_1
            /\ regressor_calls[j].X_pred.lagged_2 = regressor_calls[k].X_pred.lagged_2
            /\ regressor_calls[j].X_pred.lagged_3 = regressor_calls[k].X_pred.lagged_3

\* C6 witness: a location has three forecast days and the regressor was
\* called for each of them, with different answers
C6_Witness ==
    \E l \in Locations :
        /\ Cardinality(CallsOf(l)) = 3
        /\ \E j, k \in CallsOf(l) :
              regressor_calls[j].output # regressor_calls[k].output

\* C7: every prediction appended, and every forecast row stored, is >= 0:
\* it is 0 when the regressor returned a negative value and the returned
\* value otherwise.
C7_NonNegativePredictions ==
    /\ Len(predictions_list) = Len(regressor_calls)
    /\ \A k \in 1..Len(predictions_list) :
          /\ predictions_list[k].predicted_pm25 >= 0
          /\ regressor_calls[k].output < 0 =>
                predictions_list[k].predicted_pm25 = 0
          /\ regressor_calls[k].output >= 0 =>
                predictions_list[k].predicted_pm25 = regressor_calls[k].output
    /\ \A f \in forecasts_fg : f.predicted_pm25 >= 0

\* C7 witness: the stored forecasts hold a prediction clamped to 0 from a
\* negative output and a positive prediction kept as returned
C7_Witness ==
    /\ pc = "done"
    /\ \E j, k \in 1..Len(regressor_calls) :
          /\ regressor_calls[j].output < 0
          /\ predictions_list[j] \in forecasts_fg
          /\ predictions_list[j].predicted_pm25 = 0
          /\ regressor_calls[k].output > 0
          /\ predictions_list[k] \in forecasts_fg
          /\ predictions_list[k].predicted_pm25 > 0

\* the locations the loop has gone through
Processed == {LocationIds[i] : i \in 1..loc_idx - 1}

\* C8: a location with fewer than 3 records in the lookback read emits no
\* prediction, which does not end the run; a location with at least 3
\* records and at least one forecast weather row emits exactly one
\* prediction per forecast weather row.  (After the loop, only line 147 ends
\* a run in failure while predictions_list is empty.)
C8_InferencePrecondition ==
    /\ pc \in {"predict", "done"} =>
          \A l \in Processed :
              /\ Len(LocationHistory(l)) < 3 => PredictionsOf(l) = {}
              /\ Len(LocationHistory(l)) >= 3 /\ LocationWeather(l) # <<>> =>
                    /\ Cardinality(PredictionsOf(l)) = Len(LocationWeather(l))
                    /\ \A k \in 1..Len(LocationWeather(l)) :
                          \E j \in PredictionsOf(l) :
                              predictions_list[j].date = LocationWeather(l)[k].date
    /\ ~(/\ pc = "aborted"
         /\ loc_idx > Len(LocationIds)
         /\ predictions_list = <<>>
         /\ \E l \in Locations :
               LocationWeather(l) # <<>> /\ Len(LocationHistory(l)) < 3)

(***************************************************************************)
(* Further claims on the daily and the inference pipeline                  *)
(***************************************************************************)
\* C12: for each of today's rows (L, D) and each K in 1..3, the daily
\* add_lagged_features sets lagged_K to the pm25 of the stored observation of
\* L dated exactly D - K when there is one, and leaves it absent otherwise.
C12_IncrementalLagLookup ==
    pc = "insert_air_quality" =>
        \A r \in Rows(air_quality_df) : \A K \in Lags :
            LET found == {h \in air_quality_fg :
                             h.id = r.id /\ h.date = r.date - K}
            IN  /\ found = {} => Lagged(r, K) = NaN
                /\ \A h \in found : Lagged(r, K) = Some(h.pm25)

\* C12 witness: a row of today has a lag that was found and a lag that is
\* absent although another location has an observation on that day
C12_Witness ==
    /\ pc = "insert_air_quality"
    /\ \E r \in Rows(air_quality_df) : \E J, K \in Lags :
          /\ Lagged(r, J) # NaN
          /\ Lagged(r, K) = NaN
          /\ \E h \in air_quality_fg : h.id # r.id /\ h.date = r.date - K

\* the records of the lookback read that belong to location l
HistoryOf(l) == {h \in Rows(historical_aq) : h.id = l}

\* C13: for every location that is not skipped, lagged_1 is the pm25 of the
\* most recent record of the lookback read, dated R, lagged_2 is the
\* location's pm25 of day R - 1 and lagged_3 its pm25 of day R - 2.
C13_LagTripleSelection ==
    \A k \in 1..Len(regressor_calls) :
        LET c == regressor_calls[k]
            R == CHOOSE d \in {h.date : h \in HistoryOf(c.id)} :
                     \A h \in HistoryOf(c.id) : h.date <= d
        IN  /\ \E h \in HistoryOf(c.id) :
                  h.date = R /\ c.X_pred.lagged_1 = h.pm25
            /\ \E h \in HistoryOf(c.id) :
                  h.date = R - 1 /\ c.X_pred.lagged_2 = h.pm25
            /\ \E h \in HistoryOf(c.id) :
                  h.date = R - 2 /\ c.X_pred.lagged_3 = h.pm25

(***************************************************************************)
(* Claims on the weather request                                          *)
(***************************************************************************)
\* the provider returned its responses in the order of the requested
\* locations
InRequestOrder ==
    \A i \in 1..Len(api_responses) : api_responses[i].origin = LocationIds[i]

\* the value of variable number v in an output row
RowValue(row, v) == row[OPENMETEO_DAILY_VARIABLES[v]]

WeatherVariables == 1..Len(OPENMETEO_DAILY_VARIABLES)

\* C11: when the responses come in request order, every output row of
\* _process_weather_responses labelled with location Li carries the values
\* the i-th response has for the row's day, which are values the provider
\* computed for Li, also after the NaN rows are dropped.
C11_WeatherOrder ==
    pc = "done" /\ InRequestOrder =>
        \A j \in 1..Len(result) :
            LET row == result[j]
                i == IdRank(row.id)
                k == row.date - api_responses[i].Time + 1
            IN  /\ k \in 1..api_responses[i].TimeEnd - api_responses[i].Time
                /\ \A v \in WeatherVariables :
                      /\ RowValue(row, v) = api_responses[i].Variables[v][k]
                      /\ RowValue(row, v)
                            = Some(WeatherValue(row.id, row.date, v))

\* C11 witness: the responses came in request order, a NaN row was dropped
\* and the output holds rows of every location
C11_Witness ==
    /\ pc = "done"
    /\ InRequestOrder
    /\ \A l \in Locations : \E j \in 1..Len(result) : result[j].id = l
    /\ \E i \in 1..Len(api_responses) :
          \E v \in WeatherVariables :
              \E k \in 1..Len(api_responses[i].Variables[v]) :
                  api_responses[i].Variables[v][k] = NaN

====
